---- MODULE Spec2Model ----
(***************************************************************************)
(* A model of the request pipeline of the xmatters-go client library:      *)
(* client construction (NewWithBasicAuth, NewWithToken, the functional     *)
(* options), XMattersAPI.Request and its response classification, and the  *)
(* retrying HTTP client that newClient installs; and of the operations     *)
(* built on Request: the pagination walkers, the group-roster walker, the  *)
(* roster operations PushGroupRoster and DeleteGroupRoster, and the        *)
(* functions that delete one resource.                                     *)
(*                                                                         *)
(* Conventions.  A Go pointer is a sequence of length at most one: <<>> is *)
(* nil and <<v>> points to v.  A Go string that the code only passes       *)
(* around is a TLA+ string; a string the code transforms (the credentials  *)
(* that are base64-encoded) is a sequence of bytes.  An http.Header is a   *)
(* function from header names to non-empty sequences of values, with       *)
(* canonical names, as the net/http package requires of its keys.  A       *)
(* header value is a record [scheme, param]: "Basic " + s is               *)
(* [scheme |-> "Basic", param |-> s], a value without parameter has        *)
(* param = <<>>.                                                           *)
(***************************************************************************)
EXTENDS Integers, Sequences, FiniteSets, TLC

VARIABLES
    heap,          \* the http.Header maps that exist: [Refs -> http.Header]
    clients,       \* [ClientIds -> pointer to XMattersAPI]
    last,          \* what the last call did and returned
    now,           \* wall clock, in ticks of 1/TicksPerSecond seconds
    lastDispatch,  \* [ClientIds -> time of the client's latest HTTP call, or -1]
    pages,         \* the server's paginated resources: [uri -> Script]
    roster,        \* the server's roster of the group: a sequence of member ids
    walk           \* what the last walker, roster operation or delete did and returned

vars == <<heap, clients, last, now, lastDispatch, pages, roster, walk>>

----------------------------------------------------------------------------
(* Bounds of the model *)

\* a page holds at most MaxElements elements
MaxElements == 2

\* the server lists a roster in pages of PageSize memberships
PageSize == 2

\* a roster, and a list of desired members, has at most MaxMembers elements
MaxMembers == 2

\* a fault strikes one of the first MaxFaultAt requests of an operation
MaxFaultAt == 6

\* the transport fails at most MaxFails times before its final outcome
MaxFails == 5
\* the clock runs up to MaxTime ticks
MaxTime == 2
\* a constructor is given at most MaxOpts options
MaxOpts == 2
\* a second has TicksPerSecond clock ticks
TicksPerSecond == 4

(* Program constants *)

StatusOK == 200
StatusCreated == 201
StatusNoContent == 204
StatusUnauthorized == 401
defaultBasePath == "/api/xm/1"
ContentJSON == "application/json"
Version == "1"
AuthTypeBasic == "Basic"
AuthTypeOAuth == "OAuth"
\* retryablehttp.NewClient(): RetryMax of the client that newClient installs
\* (go-retryablehttp v0.7.5, defaultRetryMax)
defaultRetryMax == 4

----------------------------------------------------------------------------
(* Pointers *)

Nil == <<>>
Ptr(v) == <<v>>
Deref(p) == p[1]

(* Byte strings: the credentials used by the model *)

UserBytes == <<117>>                \* "u"
PassBytes == <<112, 119>>           \* "pw"
TokenBytes == <<116, 111, 107>>     \* "tok"

----------------------------------------------------------------------------
(* encoding/base64, StdEncoding.EncodeToString, on byte sequences; the      *)
(* result is the sequence of the ASCII codes of the encoded text.           *)

b64Char(i) ==
    IF i < 26 THEN 65 + i
    ELSE IF i < 52 THEN 97 + (i - 26)
    ELSE IF i < 62 THEN 48 + (i - 52)
    ELSE IF i = 62 THEN 43 ELSE 47

RECURSIVE EncodeToString(_)
EncodeToString(s) ==
    IF Len(s) = 0 THEN <<>>
    ELSE IF Len(s) = 1 THEN
        << b64Char(s[1] \div 4), b64Char((s[1] % 4) * 16), 61, 61 >>
    ELSE IF Len(s) = 2 THEN
        << b64Char(s[1] \div 4), b64Char((s[1] % 4) * 16 + (s[2] \div 16)),
           b64Char((s[2] % 16) * 4), 61 >>
    ELSE
        << b64Char(s[1] \div 4), b64Char((s[1] % 4) * 16 + (s[2] \div 16)),
           b64Char((s[2] % 16) * 4 + (s[3] \div 64)), b64Char(s[3] % 64) >>
        \o EncodeToString(SubSeq(s, 4, Len(s)))

----------------------------------------------------------------------------
(* net/http Header *)

HeaderValue(scheme, param) == [scheme |-> scheme, param |-> param]
Plain(s) == HeaderValue(s, <<>>)

EmptyHeader == [k \in {} |-> <<>>]

\* http.Header.Add: append to the values of the key
HeaderAdd(h, k, v) ==
    [x \in DOMAIN h \cup {k} |->
        IF x = k THEN (IF k \in DOMAIN h THEN Append(h[k], v) ELSE <<v>>)
        ELSE h[x]]

\* http.Header.Set: replace the values of the key
HeaderSet(h, k, v) ==
    [x \in DOMAIN h \cup {k} |-> IF x = k THEN <<v>> ELSE h[x]]

\* a copy that keeps the values target already has
copyHeaderKeep(target, source) ==
    [k \in DOMAIN target \cup DOMAIN source |->
        IF k \in DOMAIN target THEN target[k] ELSE source[k]]

\* copyHeader: every key of source overwrites the key in target
copyHeader(target, source) ==
    [k \in DOMAIN target \cup DOMAIN source |->
        IF k \in DOMAIN source THEN source[k] ELSE target[k]]

----------------------------------------------------------------------------
(* Errors *)

XMattersError(code, reason, message, subcode) ==
    [Code |-> code, Reason |-> reason, Message |-> message, Subcode |-> subcode]

\* an error value: kind "nil" is the nil error; xm is set for an
\* XMattersError, raw for an error whose text holds the raw response body
Error(kind, xm, raw) == [kind |-> kind, xm |-> xm, raw |-> raw]
NoError == Error("nil", Nil, Nil)

ErrNoContent ==
    Error("XMattersError",
          Ptr(XMattersError(StatusNoContent, "No Content",
                            "A resource was not found in response to a DELETE request.", "")),
          Nil)

ErrInavlidCredentials ==
    Error("XMattersError",
          Ptr(XMattersError(StatusUnauthorized, "Unauthorized", "Invalid Credentials", "")),
          Nil)

ErrNoHostname ==
    Error("XMattersError",
          Ptr(XMattersError(0, "Bad Request", "Missing Hostname", "")),
          Nil)

----------------------------------------------------------------------------
(* Clients and the heap of header maps *)

ClientIds == {1, 2}
CallerMapIds == {1}

OwnRef(c) == <<"own", c>>
CallerRef(i) == <<"caller", i>>
Refs == {OwnRef(c) : c \in ClientIds} \cup {CallerRef(i) : i \in CallerMapIds}

\* the *http.Client: retryablehttp's StandardClient, or a caller's client
\* (WithHTTPClient), which the model takes to be a plain http.Client
HTTPClient(kind, retryMax) == [kind |-> kind, RetryMax |-> retryMax]
StandardClient == HTTPClient("retryablehttp", defaultRetryMax)
CallerClient == HTTPClient("plain", 0)

RetryPolicy(maxRetries, minDelay, maxDelay) ==
    [MaxRetries |-> maxRetries, MinRetryDelay |-> minDelay, MaxRetryDelay |-> maxDelay]

\* rate.NewLimiter(limit, burst)
NewLimiter(limit, burst) == [limit |-> limit, burst |-> burst]

(* The functional options: an option is <<name, argument>> *)

WithBaseURL(xm, baseURL) ==
    [xm EXCEPT !.BaseURL = Ptr(baseURL \o defaultBasePath)]

WithHTTPClient(xm, client) ==
    [xm EXCEPT !.httpClient = client]

\* the client keeps the caller's map itself, not a copy
WithHeaders(xm, headers) ==
    [xm EXCEPT !.headers = headers]

WithRateLimit(xm, rps) ==
    [xm EXCEPT !.rateLimiter = Ptr(NewLimiter(rps, 1))]

WithRetryPolicy(xm, maxRetries, minRetryDelaySecs, maxRetryDelaySecs) ==
    [xm EXCEPT !.retryPolicy =
        RetryPolicy(maxRetries, minRetryDelaySecs, maxRetryDelaySecs)]

ApplyOption(xm, opt) ==
    CASE opt[1] = "WithBaseURL" -> WithBaseURL(xm, opt[2])
      [] opt[1] = "WithHTTPClient" -> WithHTTPClient(xm, opt[2])
      [] opt[1] = "WithHeaders" -> WithHeaders(xm, opt[2])
      [] opt[1] = "WithRateLimit" -> WithRateLimit(xm, opt[2])
      [] opt[1] = "WithRetryPolicy" -> WithRetryPolicy(xm, opt[2][1], opt[2][2], opt[2][3])

\* parseOptions: the options are applied in order; none of them fails
RECURSIVE parseOptions(_, _)
parseOptions(xm, opts) ==
    IF opts = <<>> THEN xm
    ELSE parseOptions(ApplyOption(xm, Head(opts)), Tail(opts))

\* newClient: the client before the constructor sets the credentials; its
\* header map is a new, empty map (OwnRef(c) names it)
newClient(c, hostname, opts) ==
    parseOptions(
        [Username |-> Nil, Password |-> Nil, Token |-> Nil, AuthType |-> Nil,
         BaseURL |-> Ptr("https://" \o hostname \o defaultBasePath),
         UserAgent |-> Ptr("xmatters-go/" \o Version),
         headers |-> Ptr(OwnRef(c)),
         httpClient |-> StandardClient,
         rateLimiter |-> Nil,
         retryPolicy |-> RetryPolicy(0, 0, 0)],
        opts)

----------------------------------------------------------------------------
(* Response bodies and encoding/json.  A body is a JSON text, described by  *)
(* its shape and, for an object, by the members an XMattersError reads and  *)
(* by the page envelope it holds, if it holds one.                          *)

Body(shape, text, code, reason, message, subcode) ==
    [shape |-> shape, text |-> text,
     code |-> code, reason |-> reason, message |-> message, subcode |-> subcode,
     page |-> Nil]

EmptyBody == Body("empty", "", 0, "", "", "")
\* {"id": "g1", ...}: a resource, none of the members of an error
DataBody == Body("object", "resource", 0, "", "", "")
\* <html>Bad Gateway</html>
GarbageBody == Body("garbage", "html", 0, "", "", "")
\* [1, 2]
ArrayBody == Body("array", "list", 0, "", "", "")
ErrorBody(code, reason) == Body("object", "error", code, reason, "failed", "E1")

\* json.Unmarshal(body, &xmerr): a JSON object sets the members it has, JSON
\* null changes nothing, every other text is an error
Unmarshal(body) ==
    IF body.shape = "object"
        THEN [ok |-> TRUE,
              value |-> XMattersError(body.code, body.reason, body.message, body.subcode)]
    ELSE IF body.shape = "null"
        THEN [ok |-> TRUE, value |-> XMattersError(0, "", "", "")]
    ELSE [ok |-> FALSE, value |-> XMattersError(0, "", "", "")]

\* a constructor that ignores the decode failure
newXMattersErrorUnchecked(body) ==
    Error("XMattersError", Ptr(Unmarshal(body).value), Nil)

newXMattersError(body) ==
    LET r == Unmarshal(body) IN
    IF ~r.ok THEN Error("unmarshal error body", Nil, Ptr(body))
    ELSE Error("XMattersError", Ptr(r.value), Nil)

----------------------------------------------------------------------------
(* The transport.  What the network does to one Request is a script: the    *)
(* first `fails` attempts fail (a network error, or a 503 answer), every    *)
(* later attempt has the outcome `final`.                                   *)

\* the outcome of one round trip: an error, or a response whose body can be
\* read in full or breaks off
Outcome(err, status, body, readOK) ==
    [err |-> err, status |-> status, body |-> body, readOK |-> readOK]

NetworkError == Outcome(TRUE, 0, EmptyBody, TRUE)
Response(status, body, readOK) == Outcome(FALSE, status, body, readOK)

Script(fails, failKind, final) ==
    [fails |-> fails, failKind |-> failKind, final |-> final]

attemptOutcome(script, i) ==
    IF i < script.fails
        THEN (IF script.failKind = "error" THEN NetworkError
              ELSE Response(503, GarbageBody, TRUE))
    ELSE script.final

\* retryablehttp.DefaultRetryPolicy
CheckRetry(o) ==
    \/ o.err
    \/ o.status = 429
    \/ o.status = 0
    \/ (o.status >= 500 /\ o.status # 501)

\* the result of httpClient.Do: an error or a response, and the number of
\* round trips made for it
DoResult(err, response, attempts) ==
    [err |-> err, response |-> response, attempts |-> attempts]

\* retryablehttp.Client.Do, attempt i (counted from 0)
RECURSIVE retryDo(_, _, _)
retryDo(retryMax, script, i) ==
    LET o == attemptOutcome(script, i) IN
    IF ~CheckRetry(o) THEN DoResult(FALSE, Ptr(o), i + 1)
    ELSE IF retryMax - i <= 0 THEN DoResult(TRUE, Nil, i + 1)
    ELSE retryDo(retryMax, script, i + 1)

\* httpClient.Do(request)
Do(httpClient, script) ==
    IF httpClient.kind = "retryablehttp" THEN retryDo(httpClient.RetryMax, script, 0)
    ELSE LET o == attemptOutcome(script, 0) IN
         IF o.err THEN DoResult(TRUE, Nil, 1) ELSE DoResult(FALSE, Ptr(o), 1)

----------------------------------------------------------------------------
(* XMattersAPI.Request *)

\* net/http validMethod: a method is a token
validMethod(httpMethod) == httpMethod \in {"GET", "POST", "DELETE", "PUT", "PATCH", "HEAD"}

\* net/url Parse refuses a URL that holds an ASCII control character; a uri
\* is the sequence of its bytes
validURI(uri) == \A i \in 1..Len(uri) : uri[i] >= 32 /\ uri[i] # 127

\* the request body Request builds: nil, the caller's reader, a reader over
\* the caller's bytes or over the JSON encoding of the caller's value;
\* json.Marshal fails for a value that has no JSON encoding
reqBodyOf(body) ==
    CASE body = "nil" -> [ok |-> TRUE, reader |-> "none"]
      [] body = "reader" -> [ok |-> TRUE, reader |-> "caller's reader"]
      [] body = "bytes" -> [ok |-> TRUE, reader |-> "bytes"]
      [] body = "value" -> [ok |-> TRUE, reader |-> "json"]
      [] body = "unencodable" -> [ok |-> FALSE, reader |-> "none"]

\* the headers of the request
requestHeadersOf(xm, headers, contentType) ==
    copyHeader(
        HeaderSet(HeaderSet(EmptyHeader, "Content-Type", Plain(contentType)),
                  "User-Agent", Plain(Deref(xm.UserAgent))),
        headers)

\* the header map of the client after Request built the headers of a
\* request on the client's own map
headersAfterRequestShared(xm, headers, contentType, requests) ==
    IF requests = <<>> THEN headers ELSE requestHeadersOf(xm, headers, contentType)

\* the header map of the client after the calls of Request that sent the
\* requests: Request sets Content-Type and User-Agent on a map it makes, and
\* copyHeader writes to that map and only reads the client's
headersAfterRequest(xm, headers, contentType, requests) == headers

\* what one call of Request does and returns: the returned bytes and error,
\* the request it built, the response it received, the number of calls of
\* httpClient.Do, of round trips, and of permits taken from the rate limiter
Result(bytes, err, request, response, doCalls, attempts, permits) ==
    [bytes |-> bytes, err |-> err, request |-> request, response |-> response,
     doCalls |-> doCalls, attempts |-> attempts, permits |-> permits]

\* a classification that knows no 204: the answer is decoded as an error
classifyWithout204(request, r) ==
    LET resp == Deref(r.response) IN
    IF resp.status = StatusUnauthorized
        THEN Result(Nil, ErrInavlidCredentials, request, r.response, 1, r.attempts, 0)
    ELSE IF ~resp.readOK
        THEN Result(Nil, Error("read body", Nil, Nil), request, r.response, 1, r.attempts, 0)
    ELSE IF resp.status # StatusOK /\ resp.status # StatusCreated
        THEN Result(Nil, newXMattersError(resp.body), request, r.response, 1, r.attempts, 0)
    ELSE Result(Ptr(resp.body), NoError, request, r.response, 1, r.attempts, 0)

\* the classification of the response, from the status check for 204 on
classify(request, r) ==
    LET resp == Deref(r.response) IN
    IF resp.status = StatusNoContent
        THEN Result(Nil, ErrNoContent, request, r.response, 1, r.attempts, 0)
    ELSE IF resp.status = StatusUnauthorized
        THEN Result(Nil, ErrInavlidCredentials, request, r.response, 1, r.attempts, 0)
    ELSE IF ~resp.readOK
        THEN Result(Nil, Error("read body", Nil, Nil), request, r.response, 1, r.attempts, 0)
    ELSE IF resp.status # StatusOK /\ resp.status # StatusCreated
        THEN Result(Nil, newXMattersError(resp.body), request, r.response, 1, r.attempts, 0)
    ELSE Result(Ptr(resp.body), NoError, request, r.response, 1, r.attempts, 0)

\* a Request that calls the client again when the answer is 401
performAgainOn401(xm, request, script) ==
    LET r == Do(xm.httpClient, script) IN
    IF r.err
        THEN Result(Nil, Error("request failed", Nil, Nil), request, Nil, 1, r.attempts, 0)
    ELSE IF Deref(r.response).status = StatusUnauthorized
        THEN [classify(request, r) EXCEPT !.doCalls = 2]
    ELSE classify(request, r)

\* the second half of Request: the call of the HTTP client and the
\* classification of what it returns
perform(xm, request, script) ==
    LET r == Do(xm.httpClient, script) IN
    IF r.err
        THEN Result(Nil, Error("request failed", Nil, Nil), request, Nil, 1, r.attempts, 0)
    ELSE classify(request, r)

\* Request(httpMethod, uri, contentType, body) on client xm, whose header
\* map is `headers`, when the network follows `script`.  The code takes no
\* permit from xm.rateLimiter: permits is 0 on every path.
Request(xm, headers, httpMethod, uri, contentType, body, script) ==
    LET rb == reqBodyOf(body) IN
    IF ~rb.ok
        THEN Result(Nil, Error("marshal body", Nil, Nil), Nil, Nil, 0, 0, 0)
    ELSE IF ~validMethod(httpMethod) \/ ~validURI(uri)
        THEN Result(Nil, Error("request creation", Nil, Nil), Nil, Nil, 0, 0, 0)
    ELSE
        perform(xm,
                Ptr([method |-> httpMethod,
                     url |-> <<Deref(xm.BaseURL), uri>>,
                     body |-> rb.reader,
                     header |-> requestHeadersOf(xm, headers, contentType)]),
                script)

----------------------------------------------------------------------------
(* Page envelopes and the pagination walkers.  A uri and a next link are    *)
(* sequences of bytes, as strings.ReplaceAll transforms them.               *)

\* the bytes of defaultBasePath, "/api/xm/1"
defaultBasePathBytes == <<47, 97, 112, 105, 47, 120, 109, 47, 49>>

HasPrefix(s, prefix) ==
    Len(s) >= Len(prefix) /\ SubSeq(s, 1, Len(prefix)) = prefix

\* strings.ReplaceAll(s, old, new) for a non-empty old: every occurrence of
\* old, found from left to right without overlap, becomes new
RECURSIVE ReplaceAll(_, _, _)
ReplaceAll(s, old, new) ==
    IF s = <<>> THEN <<>>
    ELSE IF HasPrefix(s, old)
        THEN new \o ReplaceAll(SubSeq(s, Len(old) + 1, Len(s)), old, new)
    ELSE <<Head(s)>> \o ReplaceAll(Tail(s), old, new)

\* the JSON text of a page: data holds the elements; members says which of
\* the members count, total and links the text has: "none" of them, the
\* "counts" only (links is missing, or null), or the "links" object too,
\* whose member next is then a link or null
Envelope(data, members, next) == [data |-> data, members |-> members, next |-> next]

PageBody(envelope) ==
    [Body("object", "page", 0, "", "", "") EXCEPT !.page = Ptr(envelope)]

\* an element of data: a membership record, {"group": {"id": ...},
\* "member": {"id": ..., "recipientType": ...}}
Membership(groupId, memberId, recipientType) ==
    [group |-> [id |-> groupId],
     member |-> [id |-> memberId, recipientType |-> recipientType]]

\* a decoder that takes every text for an envelope
UnmarshalPageLenient(body, embedding) ==
    [ok |-> TRUE, data |-> <<>>,
     Pagination |-> Ptr([Links |-> Ptr([Next |-> Nil])])]

\* json.Unmarshal(resp, &pagination) for a struct that embeds Pagination
\* by "pointer" (*Pagination: allocated when the text has one of its
\* members) or by "value".  Links is a pointer in both: nil unless the text
\* has a links object.
UnmarshalPage(body, embedding) ==
    LET zero == [ok |-> TRUE, data |-> <<>>,
                 Pagination |-> IF embedding = "pointer" THEN Nil
                                ELSE Ptr([Links |-> Nil])]
    IN
    IF body.shape = "object" /\ body.page # Nil
        THEN LET e == Deref(body.page)
                 links == IF e.members = "links" THEN Ptr([Next |-> e.next]) ELSE Nil
             IN  [ok |-> TRUE, data |-> e.data,
                  Pagination |-> IF e.members = "none" /\ embedding = "pointer"
                                    THEN Nil
                                 ELSE Ptr([Links |-> links])]
    ELSE IF body.shape \in {"object", "null"} THEN zero
    ELSE [zero EXCEPT !.ok = FALSE]

\* newUnmarshalError() called by the function fn
newUnmarshalError(fn) ==
    Error("XMattersError",
          Ptr(XMattersError(0, "Internal Server Error in " \o fn,
                            "error unmarshalling the JSON response", "")),
          Nil)

\* a server: the script with which it answers a request, by method and uri;
\* a request for anything else is answered 404
NotFound == Script(0, "error", Response(404, ErrorBody(404, "Not Found"), TRUE))

Answer(srv, method, uri) ==
    IF <<method, uri>> \in DOMAIN srv THEN srv[<<method, uri>>] ELSE NotFound

\* what a walker or a roster operation did and returned: how it ended
\* ("returned", "panicked" on a nil pointer, "overflow" of the stack by a
\* recursion without end), the value and the error it returned, and the
\* requests it sent, in order
WalkResult(outcome, value, err, requests) ==
    [outcome |-> outcome, value |-> value, err |-> err, requests |-> requests]

\* a call of a walker or of a roster operation: the client, the arguments,
\* the roster the server had before the call, what the call did and returned
Walk(op, client, args, before, res) ==
    [op |-> op, client |-> client, args |-> args, before |-> before, res |-> res]

NoWalk == Walk("none", 0, <<>>, <<>>, WalkResult("none", <<>>, NoError, <<>>))

\* the request a call of Request sent, if it sent one: method, uri, and
\* what the body tells (<<>> without body, the member id of a membership)
Sent(r, method, uri, body) ==
    IF r.doCalls = 0 THEN <<>> ELSE << <<method, uri, body>> >>

\* a walker that keeps the elements of its page when a later page fails
appendNextPartial(list, sent, nextSet) ==
    IF nextSet.outcome # "returned"
        THEN WalkResult(nextSet.outcome, <<>>, NoError, sent \o nextSet.requests)
    ELSE WalkResult("returned", list \o nextSet.value, nextSet.err,
                    sent \o nextSet.requests)

\* what a walker returns once the walk of the next pages has ended: the
\* error of that walk and an empty list, or its own elements followed by
\* the elements of that walk
appendNext(list, sent, nextSet) ==
    IF nextSet.outcome # "returned"
        THEN WalkResult(nextSet.outcome, <<>>, NoError, sent \o nextSet.requests)
    ELSE IF nextSet.err # NoError
        THEN WalkResult("returned", <<>>, nextSet.err, sent \o nextSet.requests)
    ELSE WalkResult("returned", list \o nextSet.value, NoError,
                    sent \o nextSet.requests)

\* GetGroupPaginationSet, GetDevicePaginationSet, GetPersonPaginationSet,
\* GetServicePaginationSet and GetSitePaginationSet: the same code, under the
\* function name fn.  The server answers a uri the same way every time, so a
\* next link that leads to a uri already asked (the set asked) is a
\* recursion without end.
RECURSIVE PaginationSet(_, _, _, _, _, _)
PaginationSet(fn, xm, headers, srv, uri, asked) ==
    LET resp == Request(xm, headers, "GET", uri, ContentJSON, "nil",
                        Answer(srv, "GET", uri))
        sent == Sent(resp, "GET", uri, <<>>)
    IN
    IF resp.err # NoError THEN WalkResult("returned", <<>>, resp.err, sent)
    ELSE
    LET pagination == UnmarshalPage(Deref(resp.bytes), "pointer") IN
    IF ~pagination.ok
        THEN WalkResult("returned", <<>>, newUnmarshalError(fn), sent)
    ELSE IF pagination.Pagination = Nil \/ Deref(pagination.Pagination).Links = Nil
        \* Pagination.Links.Next: a nil pointer dereference
        THEN WalkResult("panicked", <<>>, NoError, sent)
    ELSE
    LET next == Deref(Deref(pagination.Pagination).Links).Next IN
    IF next = Nil THEN WalkResult("returned", pagination.data, NoError, sent)
    ELSE
    LET nextUri == ReplaceAll(Deref(next), defaultBasePathBytes, <<>>) IN
    IF nextUri \in asked \cup {uri} THEN WalkResult("overflow", <<>>, NoError, sent)
    ELSE
    appendNext(pagination.data, sent,
               PaginationSet(fn, xm, headers, srv, nextUri, asked \cup {uri}))

\* GroupMember{ID, MemberType} and GroupRoster{ID, Group, Members}
GroupMember(id, memberType) == [ID |-> id, MemberType |-> memberType]
GroupRoster(id, group, members) == [ID |-> id, Group |-> group, Members |-> members]
\* GroupRoster{}
NoRoster == GroupRoster(Nil, Nil, <<>>)

\* the member list the roster walker builds from the memberships of a page
memberListOf(memberships) ==
    [i \in 1..Len(memberships) |->
        GroupMember(Ptr(memberships[i].member.id),
                    Ptr(memberships[i].member.recipientType))]

\* GetGroupRosterPaginationSet(uri)
RECURSIVE GetGroupRosterPaginationSet(_, _, _, _, _)
GetGroupRosterPaginationSet(xm, headers, srv, uri, asked) ==
    LET resp == Request(xm, headers, "GET", uri, ContentJSON, "nil",
                        Answer(srv, "GET", uri))
        sent == Sent(resp, "GET", uri, <<>>)
    IN
    IF resp.err # NoError THEN WalkResult("returned", NoRoster, resp.err, sent)
    ELSE
    LET memberPagination == UnmarshalPage(Deref(resp.bytes), "value") IN
    IF ~memberPagination.ok
        THEN WalkResult("returned", NoRoster,
                        newUnmarshalError("GetGroupRosterPaginationSet"), sent)
    ELSE
    LET memberships == memberPagination.data IN
    IF Len(memberships) = 0 THEN WalkResult("returned", NoRoster, NoError, sent)
    ELSE
    LET memberList == memberListOf(memberships) IN
    IF Deref(memberPagination.Pagination).Links = Nil
        \* Pagination.Links.Next: a nil pointer dereference
        THEN WalkResult("panicked", NoRoster, NoError, sent)
    ELSE
    LET next == Deref(Deref(memberPagination.Pagination).Links).Next
        \* the group of the first membership of this page
        first == GroupRoster(Ptr(memberships[1].group.id),
                             Ptr(memberships[1].group), <<>>)
    IN
    IF next = Nil
        THEN WalkResult("returned", [first EXCEPT !.Members = memberList], NoError, sent)
    ELSE
    LET nextUri == ReplaceAll(Deref(next), defaultBasePathBytes, <<>>) IN
    IF nextUri \in asked \cup {uri}
        THEN WalkResult("overflow", NoRoster, NoError, sent)
    ELSE
    LET nextSet == GetGroupRosterPaginationSet(xm, headers, srv, nextUri,
                                               asked \cup {uri})
    IN
    IF nextSet.outcome # "returned"
        THEN WalkResult(nextSet.outcome, NoRoster, NoError, sent \o nextSet.requests)
    ELSE IF nextSet.err # NoError
        THEN WalkResult("returned", NoRoster, nextSet.err, sent \o nextSet.requests)
    ELSE WalkResult("returned",
                    [first EXCEPT !.Members = memberList \o nextSet.value.Members],
                    NoError, sent \o nextSet.requests)

----------------------------------------------------------------------------
(* The roster of a group.  The server holds the roster of the group as the  *)
(* sequence of the ids of its members, an id more than once if the group    *)
(* allows duplicates.  It lists the roster in pages of PageSize             *)
(* memberships, removes the first membership of a member on DELETE and      *)
(* appends a membership on POST.  A fault makes one request of an           *)
(* operation fail: the request number `at` has the outcome `final`.         *)

\* "/groups/{groupId}/members", as buildURI returns it for a group id of
\* letters and no query
membersURI(groupId) ==
    <<47, 103, 114, 111, 117, 112, 115, 47>> \o groupId
        \o <<47, 109, 101, 109, 98, 101, 114, 115>>

\* "/groups/{groupId}/members/{memberId}"
memberURI(groupId, memberId) == membersURI(groupId) \o <<47>> \o memberId

\* the uri of the page of the roster that starts after offset memberships:
\* "/groups/{groupId}/members" and then "?offset=" and a digit
rosterPageURI(groupId, offset) ==
    IF offset = 0 THEN membersURI(groupId)
    ELSE membersURI(groupId) \o <<63, 111, 102, 102, 115, 101, 116, 61>>
            \o <<48 + offset>>

Fault(at, final) == [at |-> at, final |-> final]
NoFault == Fault(0, NetworkError)

\* the page of the roster after offset memberships
rosterPage(groupId, members, offset) ==
    LET upto == IF offset + PageSize < Len(members) THEN offset + PageSize
                ELSE Len(members)
    IN  Envelope([i \in 1..(upto - offset) |->
                     Membership(groupId, members[offset + i], "PERSON")],
                 "links",
                 IF upto < Len(members)
                    THEN Ptr(defaultBasePathBytes \o rosterPageURI(groupId, upto))
                 ELSE Nil)

\* the answers of the server to the GET requests of a roster fetch that
\* starts after `done` requests of the operation
rosterPages(groupId, members, done, fault) ==
    LET offsets == {0} \cup {o \in 1..Len(members) : o % PageSize = 0 /\ o < Len(members)}
    IN  [q \in {<<"GET", rosterPageURI(groupId, o)>> : o \in offsets} |->
            LET o == CHOOSE o \in offsets : rosterPageURI(groupId, o) = q[2] IN
            IF done + (o \div PageSize) + 1 = fault.at
                THEN Script(0, "error", fault.final)
            ELSE Script(0, "error",
                        Response(StatusOK, PageBody(rosterPage(groupId, members, o)), TRUE))]

\* members without its first element equal to memberId
RECURSIVE removeFirst(_, _)
removeFirst(members, memberId) ==
    IF members = <<>> THEN <<>>
    ELSE IF Head(members) = memberId THEN Tail(members)
    ELSE <<Head(members)>> \o removeFirst(Tail(members), memberId)

\* the answer of the server to the DELETE of a membership, and its roster
\* after it
onDelete(members, memberId, n, fault) ==
    IF n = fault.at
        THEN [script |-> Script(0, "error", fault.final), members |-> members]
    ELSE IF \E i \in 1..Len(members) : members[i] = memberId
        THEN [script |-> Script(0, "error", Response(StatusOK, DataBody, TRUE)),
              members |-> removeFirst(members, memberId)]
    ELSE [script |-> NotFound, members |-> members]

\* the answer of the server to the POST of a membership, and its roster
\* after it
onCreate(members, memberId, n, fault) ==
    IF n = fault.at
        THEN [script |-> Script(0, "error", fault.final), members |-> members]
    ELSE [script |-> Script(0, "error", Response(StatusOK, DataBody, TRUE)),
          members |-> Append(members, memberId)]

\* json.Unmarshal(resp, &result) for a GroupMember
UnmarshalMember(body) == body.shape \in {"object", "null"}

\* GetGroupRoster(groupId)
GetGroupRoster(xm, headers, srv, groupId) ==
    GetGroupRosterPaginationSet(xm, headers, srv, membersURI(groupId), {})

\* a DeleteGroupMembership that does not report the error of its request
DeleteGroupMembershipQuiet(xm, headers, script, groupId, memberId) ==
    LET uri == memberURI(groupId, memberId)
        resp == Request(xm, headers, "DELETE", uri, ContentJSON, "nil", script)
    IN  [err |-> NoError, requests |-> Sent(resp, "DELETE", uri, <<>>)]

\* DeleteGroupMembership(groupId, memberId): the error it returns and the
\* request it sent
DeleteGroupMembership(xm, headers, script, groupId, memberId) ==
    LET uri == memberURI(groupId, memberId)
        resp == Request(xm, headers, "DELETE", uri, ContentJSON, "nil", script)
    IN  [err |-> IF resp.err # NoError THEN resp.err
                 ELSE IF ~UnmarshalMember(Deref(resp.bytes))
                    THEN Error("unmarshal response", Nil, Nil)
                 ELSE NoError,
         requests |-> Sent(resp, "DELETE", uri, <<>>)]

\* PushGroupMembership(groupId, params): the error it returns and the
\* request it sent
PushGroupMembership(xm, headers, script, groupId, params) ==
    LET uri == membersURI(groupId)
        resp == Request(xm, headers, "POST", uri, ContentJSON, "value", script)
    IN  [err |-> IF resp.err # NoError THEN resp.err
                 ELSE IF ~UnmarshalMember(Deref(resp.bytes))
                    THEN newUnmarshalError("PushGroupMembership")
                 ELSE NoError,
         requests |-> Sent(resp, "POST", uri, Deref(params.ID))]

\* DeleteGroup, DeleteDevice, DeletePerson, DeleteService and DeleteSite of
\* the resource at uri: the error the function returns and the request it
\* sent.  DeleteGroup and DeleteDevice decode the body of the response,
\* DeletePerson, DeleteService and DeleteSite drop it.
DeleteResource(xm, headers, script, uri, decodes) ==
    LET resp == Request(xm, headers, "DELETE", uri, ContentJSON, "nil", script)
    IN  [err |-> IF resp.err # NoError THEN resp.err
                 ELSE IF decodes /\ ~UnmarshalMember(Deref(resp.bytes))
                    THEN Error("unmarshal response", Nil, Nil)
                 ELSE NoError,
         requests |-> Sent(resp, "DELETE", uri, <<>>)]

\* a search that returns after it has compared the first element of target
ContainsMemberFirstOnly(member, target) ==
    Len(target) > 0 /\ Deref(target[1].ID) = Deref(member.ID)

\* a comparison of the member types instead of the ids
ContainsMemberByType(member, target) ==
    \E i \in 1..Len(target) : Deref(target[i].MemberType) = Deref(member.MemberType)

\* ContainsMember(member, target)
ContainsMember(member, target) ==
    \E i \in 1..Len(target) : Deref(target[i].ID) = Deref(member.ID)

\* the state of a roster operation between two of its calls: the roster of
\* the server, the requests sent so far, the error of the call that failed
Progress(members, requests, err) ==
    [members |-> members, requests |-> requests, err |-> err]

\* v := e; F(v): the value of e, computed once, given to F
Bind(e, F(_)) == CHOOSE r \in {F(v) : v \in {e}} : TRUE

\* the loop of deletes over list: one DeleteGroupMembership for each
\* element that is not in keep, until one fails
RECURSIVE deleteEach(_, _, _, _, _, _, _)
deleteEach(xm, headers, groupId, fault, list, keep, st) ==
    IF list = <<>> THEN st
    ELSE IF ContainsMember(Head(list), keep)
        THEN deleteEach(xm, headers, groupId, fault, Tail(list), keep, st)
    ELSE
    LET memberId == Deref(Head(list).ID)
        server == onDelete(st.members, memberId, Len(st.requests) + 1, fault)
    IN  Bind(DeleteGroupMembership(xm, headers, server.script, groupId, memberId),
             LAMBDA call :
                Bind(Progress(IF call.requests = <<>> THEN st.members
                              ELSE server.members,
                              st.requests \o call.requests, call.err),
                     LAMBDA after :
                        IF call.err # NoError THEN after
                        ELSE deleteEach(xm, headers, groupId, fault, Tail(list),
                                        keep, after)))

\* the loop of creates over list: one PushGroupMembership for each element
\* that is not in have, until one fails
RECURSIVE createEach(_, _, _, _, _, _, _)
createEach(xm, headers, groupId, fault, list, have, st) ==
    IF list = <<>> THEN st
    ELSE IF ContainsMember(Head(list), have)
        THEN createEach(xm, headers, groupId, fault, Tail(list), have, st)
    ELSE
    LET memberId == Deref(Head(list).ID)
        server == onCreate(st.members, memberId, Len(st.requests) + 1, fault)
    IN  Bind(PushGroupMembership(xm, headers, server.script, groupId, Head(list)),
             LAMBDA call :
                Bind(Progress(IF call.requests = <<>> THEN st.members
                              ELSE server.members,
                              st.requests \o call.requests, call.err),
                     LAMBDA after :
                        IF call.err # NoError THEN after
                        ELSE createEach(xm, headers, groupId, fault, Tail(list),
                                        have, after)))

\* what a roster operation did: what it returned and sent, and the roster
\* of the server after it
Done(res, members) == [res |-> res, members |-> members]

\* a reconciliation that adds the missing members before it removes the
\* members that are not desired
PushGroupRosterCreatesFirst(xm, headers, members, fault, groupId, params) ==
    Bind(GetGroupRoster(xm, headers, rosterPages(groupId, members, 0, fault), groupId),
         LAMBDA currentRoster :
    IF currentRoster.outcome # "returned" \/ currentRoster.err # NoError
        THEN Done([currentRoster EXCEPT !.value = NoRoster], members)
    ELSE
    Bind(createEach(xm, headers, groupId, fault, params, currentRoster.value.Members,
                    Progress(members, currentRoster.requests, NoError)),
         LAMBDA added :
    IF added.err # NoError
        THEN Done(WalkResult("returned", NoRoster, added.err, added.requests),
                  added.members)
    ELSE
    Bind(deleteEach(xm, headers, groupId, fault, currentRoster.value.Members, params,
                    added),
         LAMBDA removed :
    IF removed.err # NoError
        THEN Done(WalkResult("returned", NoRoster, removed.err, removed.requests),
                  removed.members)
    ELSE
    Bind(GetGroupRoster(xm, headers,
                        rosterPages(groupId, removed.members, Len(removed.requests), fault),
                        groupId),
         LAMBDA newRoster :
    Done(WalkResult(newRoster.outcome,
                    IF newRoster.err # NoError THEN NoRoster ELSE newRoster.value,
                    newRoster.err, removed.requests \o newRoster.requests),
         removed.members)))))

\* a reconciliation that returns the desired list as the roster instead of
\* the roster it fetched last
PushGroupRosterProjected(xm, headers, members, fault, groupId, params) ==
    Bind(GetGroupRoster(xm, headers, rosterPages(groupId, members, 0, fault), groupId),
         LAMBDA currentRoster :
    IF currentRoster.outcome # "returned" \/ currentRoster.err # NoError
        THEN Done([currentRoster EXCEPT !.value = NoRoster], members)
    ELSE
    Bind(deleteEach(xm, headers, groupId, fault, currentRoster.value.Members, params,
                    Progress(members, currentRoster.requests, NoError)),
         LAMBDA removed :
    IF removed.err # NoError
        THEN Done(WalkResult("returned", NoRoster, removed.err, removed.requests),
                  removed.members)
    ELSE
    Bind(createEach(xm, headers, groupId, fault, params, currentRoster.value.Members,
                    removed),
         LAMBDA added :
    IF added.err # NoError
        THEN Done(WalkResult("returned", NoRoster, added.err, added.requests),
                  added.members)
    ELSE
    Bind(GetGroupRoster(xm, headers,
                        rosterPages(groupId, added.members, Len(added.requests), fault),
                        groupId),
         LAMBDA newRoster :
    Done(WalkResult(newRoster.outcome,
                    IF newRoster.err # NoError THEN NoRoster
                    ELSE [newRoster.value EXCEPT !.Members = params],
                    newRoster.err, added.requests \o newRoster.requests),
         added.members)))))

\* PushGroupRoster(groupId, params) against a server whose roster is members
PushGroupRoster(xm, headers, members, fault, groupId, params) ==
    Bind(GetGroupRoster(xm, headers, rosterPages(groupId, members, 0, fault), groupId),
         LAMBDA currentRoster :
    IF currentRoster.outcome # "returned" \/ currentRoster.err # NoError
        THEN Done([currentRoster EXCEPT !.value = NoRoster], members)
    ELSE
    Bind(deleteEach(xm, headers, groupId, fault, currentRoster.value.Members, params,
                    Progress(members, currentRoster.requests, NoError)),
         LAMBDA removed :
    IF removed.err # NoError
        THEN Done(WalkResult("returned", NoRoster, removed.err, removed.requests),
                  removed.members)
    ELSE
    Bind(createEach(xm, headers, groupId, fault, params, currentRoster.value.Members,
                    removed),
         LAMBDA added :
    IF added.err # NoError
        THEN Done(WalkResult("returned", NoRoster, added.err, added.requests),
                  added.members)
    ELSE
    Bind(GetGroupRoster(xm, headers,
                        rosterPages(groupId, added.members, Len(added.requests), fault),
                        groupId),
         LAMBDA newRoster :
    Done(WalkResult(newRoster.outcome,
                    IF newRoster.err # NoError THEN NoRoster ELSE newRoster.value,
                    newRoster.err, added.requests \o newRoster.requests),
         added.members)))))

\* a DeleteGroupRoster that returns nil also when one of its deletes failed
DeleteGroupRosterSilent(xm, headers, members, fault, groupId) ==
    Bind(GetGroupRoster(xm, headers, rosterPages(groupId, members, 0, fault), groupId),
         LAMBDA fetched :
    IF fetched.outcome # "returned" \/ fetched.err # NoError
        THEN Done([fetched EXCEPT !.value = NoRoster], members)
    ELSE
    Bind(deleteEach(xm, headers, groupId, fault, fetched.value.Members, <<>>,
                    Progress(members, fetched.requests, NoError)),
         LAMBDA removed :
    Done(WalkResult("returned", NoRoster, NoError, removed.requests),
         removed.members)))

\* DeleteGroupRoster(groupId) against a server whose roster is members; it
\* returns an error only
DeleteGroupRoster(xm, headers, members, fault, groupId) ==
    Bind(GetGroupRoster(xm, headers, rosterPages(groupId, members, 0, fault), groupId),
         LAMBDA fetched :
    IF fetched.outcome # "returned" \/ fetched.err # NoError
        THEN Done([fetched EXCEPT !.value = NoRoster], members)
    ELSE
    Bind(deleteEach(xm, headers, groupId, fault, fetched.value.Members, <<>>,
                    Progress(members, fetched.requests, NoError)),
         LAMBDA removed :
    Done(WalkResult("returned", NoRoster, removed.err, removed.requests),
         removed.members)))

----------------------------------------------------------------------------
(* The inputs of the model *)

\* the header maps a caller may hold before it builds a client
HeaderArgs ==
    { EmptyHeader,
      [k \in {"Content-Type", "User-Agent", "X-Trace"} |-> <<Plain("custom")>>],
      [k \in {"Authorization"} |-> <<HeaderValue("Basic", <<88>>)>>] }

Rates == {1, 2}

\* the retry ceilings given to WithRetryPolicy: below, at and above the
\* ceiling of the client that newClient installs
RetryArgs == {1, defaultRetryMax, defaultRetryMax + 2}

Options ==
    {<<"WithBaseURL", "http://localhost">>}
    \cup {<<"WithHTTPClient", CallerClient>>}
    \cup {<<"WithHeaders", h>> : h \in {Nil} \cup {Ptr(CallerRef(i)) : i \in CallerMapIds}}
    \cup {<<"WithRateLimit", r>> : r \in Rates}
    \cup {<<"WithRetryPolicy", <<m, 1, 30>>>> : m \in RetryArgs}

OptLists(S) == UNION {[1..n -> S] : n \in 0..MaxOpts}

Hostnames == {Nil, Ptr("acme.xmatters.com")}
Usernames == {Nil, Ptr(UserBytes)}
Passwords == {Nil, Ptr(PassBytes)}
Tokens == {Nil, Ptr(TokenBytes)}

\* the calls of Request: method, uri, content type, body; the uris are
\* "/groups" and "/gr" followed by a DEL character
Calls ==
    { <<"GET", <<47, 103, 114, 111, 117, 112, 115>>, ContentJSON, "nil">>,
      <<"POST", <<47, 103, 114, 111, 117, 112, 115>>, ContentJSON, "value">>,
      <<"POST", <<47, 103, 114, 111, 117, 112, 115>>, "text/plain", "bytes">>,
      <<"POST", <<47, 103, 114, 111, 117, 112, 115>>, "text/plain", "reader">>,
      <<"POST", <<47, 103, 114, 111, 117, 112, 115>>, ContentJSON, "unencodable">>,
      <<"BAD METHOD", <<47, 103, 114, 111, 117, 112, 115>>, ContentJSON, "nil">>,
      <<"GET", <<47, 103, 114, 127>>, ContentJSON, "nil">> }

\* the final outcomes of the network
Finals ==
    { NetworkError,
      Response(200, DataBody, TRUE), Response(200, DataBody, FALSE),
      Response(200, GarbageBody, TRUE), Response(201, DataBody, TRUE),
      Response(204, EmptyBody, TRUE), Response(204, EmptyBody, FALSE),
      Response(401, ErrorBody(401, "Unauthorized"), TRUE),
      Response(404, ErrorBody(404, "Not Found"), TRUE),
      Response(404, GarbageBody, TRUE), Response(404, ErrorBody(404, "Not Found"), FALSE),
      Response(400, ArrayBody, TRUE), Response(400, EmptyBody, TRUE),
      Response(500, ErrorBody(500, "Internal Server Error"), TRUE),
      Response(501, GarbageBody, TRUE) }

\* after a failure the network succeeds, keeps failing, or answers 500
FinalsAfterFailure ==
    { NetworkError, Response(200, DataBody, TRUE),
      Response(500, ErrorBody(500, "Internal Server Error"), TRUE) }

Scripts ==
    {Script(0, "error", f) : f \in Finals}
    \cup {Script(k, kind, f) :
             k \in 1..MaxFails, kind \in {"error", "503"}, f \in FinalsAfterFailure}

\* the uris at which the server of a walk has its pages: "/g", "/g?o=1" and
\* "/g?s=/api/xm/1", whose query holds the text of defaultBasePath
PageURIs ==
    << <<47, 103>>,
       <<47, 103, 63, 111, 61, 49>>,
       <<47, 103, 63, 115, 61>> \o defaultBasePathBytes >>

\* the elements the page at PageURIs[i] may hold: memberships of the group
\* "g" for the members "a", "b", ..., two for each page
ElementsOf(i) ==
    [j \in 1..MaxElements |->
        Membership(<<103>>, <<96 + MaxElements * (i - 1) + j>>, "PERSON")]

\* the answers of the server for the page at PageURIs[i]: a failure, a text
\* that is no envelope, or an envelope with none or all of the elements of
\* the page and with no pagination members, no links object, a null next
\* link or a next link to one of the pages: its uri under the API root
PageAnswers(i) ==
    {Script(0, "error", f) :
        f \in {NetworkError,
               Response(500, ErrorBody(500, "Internal Server Error"), TRUE),
               Response(200, GarbageBody, TRUE)}}
    \cup {Script(0, "error", Response(200, PageBody(e), TRUE)) :
             e \in {Envelope(SubSeq(ElementsOf(i), 1, n), m, Nil) :
                       n \in {0, MaxElements}, m \in {"none", "counts", "links"}}
                   \cup {Envelope(SubSeq(ElementsOf(i), 1, n), "links",
                                  Ptr(defaultBasePathBytes \o PageURIs[k])) :
                            n \in {0, MaxElements}, k \in 1..Len(PageURIs)}}

\* the servers of a walk: an answer for each of the pages
Servers ==
    {(<<"GET", PageURIs[1]>> :> a1) @@ (<<"GET", PageURIs[2]>> :> a2)
        @@ (<<"GET", PageURIs[3]>> :> a3) :
       a1 \in PageAnswers(1), a2 \in PageAnswers(2), a3 \in PageAnswers(3)}

\* the five walkers of element lists
Walkers ==
    {"GetGroupPaginationSet", "GetDevicePaginationSet", "GetPersonPaginationSet",
     "GetServicePaginationSet", "GetSitePaginationSet"}

\* the group "g" and the ids "a", "b", "c" of the members it may have
GroupId == <<103>>
MemberIds == {<<97>>, <<98>>, <<99>>}

\* the rosters of the group when the clients start
Rosters == UNION {[1..n -> MemberIds] : n \in 0..MaxMembers}

\* the lists of desired members given to PushGroupRoster
DesiredLists ==
    {[i \in 1..Len(ids) |-> GroupMember(Ptr(ids[i]), Ptr("PERSON"))] : ids \in Rosters}

\* the faults of an operation: none, or a network error at one request
Faults == {NoFault} \cup {Fault(n, NetworkError) : n \in 1..MaxFaultAt}

\* the option lists of the clients that work on the roster: no option, or
\* a header map of the caller with a rate limit or with a retry policy
RosterOptLists ==
    { <<>>,
      << <<"WithHeaders", Ptr(CallerRef(1))>>, <<"WithRateLimit", 1>> >>,
      << <<"WithHeaders", Ptr(CallerRef(1))>>, <<"WithRetryPolicy", <<1, 1, 30>>>> >> }

\* the functions that delete one resource: the uri each builds for the id
\* "x" ("/groups/x", "/devices/x", "/people/x", "/services/x", "/sites/x")
\* and whether it decodes the body of the response
DeleteCalls ==
    { <<"DeleteGroup", <<47, 103, 114, 111, 117, 112, 115, 47, 120>>, TRUE>>,
      <<"DeleteDevice", <<47, 100, 101, 118, 105, 99, 101, 115, 47, 120>>, TRUE>>,
      <<"DeletePerson", <<47, 112, 101, 111, 112, 108, 101, 47, 120>>, FALSE>>,
      <<"DeleteService", <<47, 115, 101, 114, 118, 105, 99, 101, 115, 47, 120>>, FALSE>>,
      <<"DeleteSite", <<47, 115, 105, 116, 101, 115, 47, 120>>, FALSE>> }

\* the answer of the server without content
NoContent == Response(StatusNoContent, EmptyBody, TRUE)

\* the answers of the server to the DELETE of a resource: the resource, no
\* content, not found; or the network fails
DeleteScripts ==
    {Script(0, "error", f) :
        f \in {Response(StatusOK, DataBody, TRUE), NoContent,
               Response(404, ErrorBody(404, "Not Found"), TRUE), NetworkError}}

\* the faults that answer one request of an operation without content
NoContentFaults == {NoFault} \cup {Fault(n, NoContent) : n \in 1..3}

----------------------------------------------------------------------------
(* The state machine *)

\* what the last call was and did; "none" when its result has been taken
Call(op, client, outcome, args, script, res, gap) ==
    [op |-> op, client |-> client, outcome |-> outcome, args |-> args,
     script |-> script, res |-> res, gap |-> gap]

NoResult == Result(Nil, NoError, Nil, Nil, 0, 0, 0)
NoScript == Script(0, "error", NetworkError)
NoCall == Call("none", 0, "none", <<>>, NoScript, NoResult, -1)

\* no client is built, nothing has been called
InitClients ==
    /\ \E a \in [CallerMapIds -> HeaderArgs] :
          heap = [r \in Refs |-> IF r[1] = "caller" THEN a[r[2]] ELSE EmptyHeader]
    /\ clients = [c \in ClientIds |-> Nil]
    /\ last = NoCall
    /\ now = 0
    /\ lastDispatch = [c \in ClientIds |-> -1]
    /\ walk = NoWalk

Init ==
    /\ InitClients
    /\ pages = <<>>
    /\ roster = <<>>

\* a constructor that returns an error, or panics, builds no client; args
\* are the pointers it was given
Fails(op, c, args, outcome, err) ==
    /\ last' = Call(op, c, outcome, args, NoScript,
                    Result(Nil, err, Nil, Nil, 0, 0, 0), -1)
    /\ UNCHANGED <<heap, clients, now, lastDispatch, pages, roster, walk>>

\* a constructor that sets the credentials and adds the Authorization header
\* to the map the client holds
Builds(op, c, args, xm, authValue) ==
    /\ clients' = [clients EXCEPT ![c] = Ptr(xm)]
    /\ heap' = [heap EXCEPT ![Deref(xm.headers)] = HeaderAdd(@, "Authorization", authValue)]
    /\ last' = Call(op, c, "returned", args, NoScript, NoResult, -1)
    /\ UNCHANGED <<now, lastDispatch, pages, roster, walk>>

\* NewWithBasicAuth(hostname, username, password, opts...) builds client c
NewWithBasicAuth(c, hostname, username, password, opts) ==
    /\ last = NoCall
    /\ clients[c] = Nil
    /\ IF hostname = Nil
          THEN Fails("NewWithBasicAuth", c, <<hostname, username, password>>, "returned", ErrNoHostname)
       ELSE IF username = Nil \/ password = Nil
          \* *username, *password: a nil pointer dereference
          THEN Fails("NewWithBasicAuth", c, <<hostname, username, password>>, "panicked", NoError)
       ELSE
          LET base64AuthString ==
                  EncodeToString(Deref(username) \o <<58>> \o Deref(password))
              xm == newClient(c, Deref(hostname), opts)
          IN  IF xm.headers = Nil
                 \* Add on a nil map
                 THEN Fails("NewWithBasicAuth", c, <<hostname, username, password>>, "panicked", NoError)
              ELSE Builds("NewWithBasicAuth", c, <<hostname, username, password>>,
                          [xm EXCEPT !.AuthType = Ptr(AuthTypeBasic),
                                     !.Username = username,
                                     !.Password = password],
                          HeaderValue("Basic", base64AuthString))

\* NewWithToken(hostname, token, opts...) builds client c
NewWithToken(c, hostname, token, opts) ==
    /\ last = NoCall
    /\ clients[c] = Nil
    /\ IF hostname = Nil
          THEN Fails("NewWithToken", c, <<hostname, token>>, "returned", ErrNoHostname)
       ELSE
          LET xm == newClient(c, Deref(hostname), opts) IN
          IF token = Nil \/ xm.headers = Nil
             \* *xmatters.Token: a nil pointer dereference; Add on a nil map
             THEN Fails("NewWithToken", c, <<hostname, token>>, "panicked", NoError)
          ELSE Builds("NewWithToken", c, <<hostname, token>>,
                      [xm EXCEPT !.AuthType = Ptr(AuthTypeOAuth), !.Token = token],
                      HeaderValue("Bearer", Deref(token)))

\* a call of Request on client c; the HTTP call, if one is made, is made now
CallRequest(c, call, script) ==
    /\ last = NoCall
    /\ clients[c] # Nil
    /\ LET xm == Deref(clients[c])
           res == Request(xm, heap[Deref(xm.headers)],
                          call[1], call[2], call[3], call[4], script)
           gap == IF res.doCalls = 0 \/ lastDispatch[c] = -1 THEN -1
                  ELSE now - lastDispatch[c]
       IN  /\ last' = Call("Request", c, "returned", call,
                            IF res.doCalls = 0 THEN NoScript ELSE script, res, gap)
           /\ lastDispatch' = [lastDispatch EXCEPT ![c] =
                                  IF res.doCalls = 0 THEN @ ELSE now]
    /\ heap' = [heap EXCEPT ![Deref(Deref(clients[c]).headers)] =
                    headersAfterRequest(Deref(clients[c]), @, call[3],
                                        IF last'.res.doCalls = 0 THEN <<>>
                                        ELSE << <<call[1], call[2], call[4]>> >>)]
    /\ UNCHANGED <<clients, now, pages, roster, walk>>

\* the caller takes the result of the last call
TakeResult ==
    /\ last # NoCall
    /\ last' = NoCall
    /\ UNCHANGED <<heap, clients, now, lastDispatch, pages, roster, walk>>

\* time passes
Tick ==
    /\ now < MaxTime
    /\ now' = now + 1
    /\ UNCHANGED <<heap, clients, last, lastDispatch, pages, roster, walk>>

Next ==
    \/ \E h \in Hostnames, u \in Usernames, p \in Passwords, opts \in OptLists(Options) :
          NewWithBasicAuth(1, h, u, p, opts)
    \/ \E h \in Hostnames, t \in Tokens, opts \in OptLists(Options) :
          NewWithToken(1, h, t, opts)
    \/ \E call \in Calls, script \in Scripts : CallRequest(1, call, script)
    \/ TakeResult

Spec == Init /\ [][Next]_vars

----------------------------------------------------------------------------
(* The specification of the rate of the calls: two clients, built with or   *)
(* without WithRateLimit, call Request while time passes.                   *)

RateOptions == {<<"WithRateLimit", r>> : r \in Rates}

RateScripts ==
    { Script(0, "error", Response(200, DataBody, TRUE)),
      Script(0, "error", NetworkError) }

NextRate ==
    \/ \E c \in ClientIds, opts \in OptLists(RateOptions) :
          NewWithBasicAuth(c, Ptr("acme.xmatters.com"), Ptr(UserBytes), Ptr(PassBytes), opts)
    \/ \E c \in ClientIds, opts \in OptLists(RateOptions) :
          NewWithToken(c, Ptr("acme.xmatters.com"), Ptr(TokenBytes), opts)
    \/ \E c \in ClientIds, call \in Calls, script \in RateScripts : CallRequest(c, call, script)
    \/ TakeResult
    \/ Tick

SpecRate == Init /\ [][NextRate]_vars

\* the walks: the servers have pages, the clients walk them

\* the state after a walker or a roster operation of client c returned res
Walked(c, op, args, res) ==
    /\ walk' = Walk(op, c, args, roster, res)
    /\ heap' = [heap EXCEPT ![Deref(Deref(clients[c]).headers)] =
                    headersAfterRequest(Deref(clients[c]), @, ContentJSON, res.requests)]
    /\ lastDispatch' = [lastDispatch EXCEPT ![c] =
                           IF res.requests = <<>> THEN @ ELSE now]
    /\ UNCHANGED <<clients, last, now>>

\* a call of one of the five walkers on client c
CallPaginationSet(c, fn, uri) ==
    /\ last = NoCall
    /\ walk.op = "none"
    /\ clients[c] # Nil
    /\ LET xm == Deref(clients[c]) IN
       \E res \in {PaginationSet(fn, xm, heap[Deref(xm.headers)], pages, uri, {})} :
          Walked(c, fn, <<uri>>, res)
    /\ UNCHANGED <<pages, roster>>

\* a call of GetGroupRosterPaginationSet on client c
CallGetGroupRosterPaginationSet(c, uri) ==
    /\ last = NoCall
    /\ walk.op = "none"
    /\ clients[c] # Nil
    /\ LET xm == Deref(clients[c]) IN
       \E res \in {GetGroupRosterPaginationSet(xm, heap[Deref(xm.headers)], pages,
                                                uri, {})} :
          Walked(c, "GetGroupRosterPaginationSet", <<uri>>, res)
    /\ UNCHANGED <<pages, roster>>

\* the caller takes the result of the last walker or roster operation
TakeWalk ==
    /\ walk.op # "none"
    /\ walk' = NoWalk
    /\ UNCHANGED <<heap, clients, last, now, lastDispatch, pages, roster>>

InitWalk ==
    /\ InitClients
    /\ pages \in Servers
    /\ roster = <<>>

NextWalk ==
    \/ \E opts \in OptLists({<<"WithHTTPClient", CallerClient>>}) :
          NewWithToken(1, Ptr("acme.xmatters.com"), Ptr(TokenBytes), opts)
    \/ \E fn \in Walkers, i \in 1..Len(PageURIs) : CallPaginationSet(1, fn, PageURIs[i])
    \/ \E i \in 1..Len(PageURIs) : CallGetGroupRosterPaginationSet(1, PageURIs[i])
    \/ TakeResult
    \/ TakeWalk

SpecWalk == InitWalk /\ [][NextWalk]_vars

\* the roster: the server has the roster of the group, the clients fetch
\* and change it

\* the state after a roster operation of client c did d
Changed(c, op, args, d) ==
    /\ Walked(c, op, args, d.res)
    /\ roster' = d.members
    /\ pages' = rosterPages(GroupId, d.members, 0, NoFault)

\* a call of PushGroupRoster on client c
CallPushGroupRoster(c, params, fault) ==
    /\ last = NoCall
    /\ walk.op = "none"
    /\ clients[c] # Nil
    /\ LET xm == Deref(clients[c]) IN
       \E d \in {PushGroupRoster(xm, heap[Deref(xm.headers)], roster, fault,
                                  GroupId, params)} :
          Changed(c, "PushGroupRoster", <<GroupId, params, fault>>, d)

\* a call of DeleteGroupRoster on client c
CallDeleteGroupRoster(c, fault) ==
    /\ last = NoCall
    /\ walk.op = "none"
    /\ clients[c] # Nil
    /\ LET xm == Deref(clients[c]) IN
       \E d \in {DeleteGroupRoster(xm, heap[Deref(xm.headers)], roster, fault,
                                    GroupId)} :
          Changed(c, "DeleteGroupRoster", <<GroupId, <<>>, fault>>, d)

\* the caller holds a map with headers of its own
InitRoster ==
    /\ InitClients
    /\ \A i \in CallerMapIds : "X-Trace" \in DOMAIN heap[CallerRef(i)]
    /\ roster \in Rosters
    /\ pages = rosterPages(GroupId, roster, 0, NoFault)

NextRoster ==
    \/ \E opts \in RosterOptLists :
          NewWithToken(1, Ptr("acme.xmatters.com"), Ptr(TokenBytes), opts)
    \/ \E call \in Calls, script \in RateScripts :
          /\ walk.op = "none"
          /\ CallRequest(1, call, script)
    \/ \E fn \in Walkers : CallPaginationSet(1, fn, membersURI(GroupId))
    \/ CallGetGroupRosterPaginationSet(1, membersURI(GroupId))
    \/ \E params \in DesiredLists, fault \in Faults : CallPushGroupRoster(1, params, fault)
    \/ \E fault \in Faults : CallDeleteGroupRoster(1, fault)
    \/ TakeResult
    \/ TakeWalk

SpecRoster == InitRoster /\ [][NextRoster]_vars

\* the deletes: the clients delete resources and memberships, the server
\* answers some of the DELETE requests without content

\* a call of DeleteGroup, DeleteDevice, DeletePerson, DeleteService or
\* DeleteSite on client c
CallDelete(c, call, script) ==
    /\ last = NoCall
    /\ walk.op = "none"
    /\ clients[c] # Nil
    /\ LET xm == Deref(clients[c]) IN
       \E d \in {DeleteResource(xm, heap[Deref(xm.headers)], script, call[2], call[3])} :
          Walked(c, call[1], <<call[2], <<>>, Fault(1, script.final)>>,
                 WalkResult("returned", <<>>, d.err, d.requests))
    /\ UNCHANGED <<pages, roster>>

\* a call of DeleteGroupMembership on client c
CallDeleteGroupMembership(c, memberId, fault) ==
    /\ last = NoCall
    /\ walk.op = "none"
    /\ clients[c] # Nil
    /\ LET xm == Deref(clients[c])
           server == onDelete(roster, memberId, 1, fault)
       IN  \E d \in {DeleteGroupMembership(xm, heap[Deref(xm.headers)], server.script,
                                            GroupId, memberId)} :
              Changed(c, "DeleteGroupMembership",
                      <<GroupId, memberId, Fault(1, server.script.final)>>,
                      Done(WalkResult("returned", <<>>, d.err, d.requests),
                           IF d.requests = <<>> THEN roster ELSE server.members))

NextDelete ==
    \/ \E opts \in RosterOptLists :
          NewWithToken(1, Ptr("acme.xmatters.com"), Ptr(TokenBytes), opts)
    \/ \E call \in DeleteCalls, script \in DeleteScripts : CallDelete(1, call, script)
    \/ \E id \in MemberIds, fault \in NoContentFaults :
          CallDeleteGroupMembership(1, id, fault)
    \/ \E params \in DesiredLists, fault \in NoContentFaults :
          CallPushGroupRoster(1, params, fault)
    \/ \E fault \in NoContentFaults : CallDeleteGroupRoster(1, fault)
    \/ TakeResult
    \/ TakeWalk

SpecDelete == InitRoster /\ [][NextDelete]_vars

\* the header maps: two clients are built, with a map of their own or with
\* the map of the caller, and the caller goes on using its map

\* the option lists of these clients: no option, or the map of the caller
OwnOptLists == {<<>>, << <<"WithHeaders", Ptr(CallerRef(1))>> >>}

\* the values the caller sets for "X-Trace" in its map
TraceValues == {"custom", "changed"}

\* the caller sets a header in the map it holds; the map is the one the
\* clients built with WithHeaders(map) hold
CallerSets(i, v) ==
    /\ last = NoCall
    /\ HeaderSet(heap[CallerRef(i)], "X-Trace", Plain(v)) # heap[CallerRef(i)]
    /\ heap' = [heap EXCEPT ![CallerRef(i)] = HeaderSet(@, "X-Trace", Plain(v))]
    /\ UNCHANGED <<clients, last, now, lastDispatch, pages, roster, walk>>

NextOwn ==
    \/ \E c \in ClientIds, opts \in OwnOptLists :
          NewWithBasicAuth(c, Ptr("acme.xmatters.com"), Ptr(UserBytes), Ptr(PassBytes), opts)
    \/ \E c \in ClientIds, opts \in OwnOptLists :
          NewWithToken(c, Ptr("acme.xmatters.com"), Ptr(TokenBytes), opts)
    \/ \E i \in CallerMapIds, v \in TraceValues : CallerSets(i, v)
    \/ \E c \in ClientIds, call \in Calls, script \in RateScripts : CallRequest(c, call, script)
    \/ TakeResult

SpecOwn == Init /\ [][NextOwn]_vars

----------------------------------------------------------------------------
(* Properties *)

\* the last call is a Request that received a response
Received == last.op = "Request" /\ last.res.response # Nil
TheResponse == Deref(last.res.response)
\* the client of the last call
TheClient == Deref(clients[last.client])
\* the last call is a Request that built its request
Built == last.op = "Request" /\ last.res.request # Nil
TheRequest == Deref(last.res.request)

Returns(bytes, err) == last.res.bytes = bytes /\ last.res.err = err

\* the error Request returns for a body that decodes as a structured error
DecodedError(body) ==
    Error("XMattersError",
          Ptr(XMattersError(body.code, body.reason, body.message, body.subcode)), Nil)
Decodes(body) == body.shape \in {"object", "null"}

\* C1, as stated: for every response received by Request, status 200 or
\* 201 yields (body, nil), 204 yields (nil, ErrNoContent), 401 yields
\* (nil, ErrInavlidCredentials), and 500 with a body that decodes as a
\* structured error yields (nil, that error).
C1_AsStated ==
    Received =>
        /\ TheResponse.status \in {200, 201} => Returns(Ptr(TheResponse.body), NoError)
        /\ TheResponse.status = 204 => Returns(Nil, ErrNoContent)
        /\ TheResponse.status = 401 => Returns(Nil, ErrInavlidCredentials)
        /\ (TheResponse.status = 500 /\ TheResponse.readOK /\ Decodes(TheResponse.body))
              => Returns(Nil, DecodedError(TheResponse.body))

\* C1, amended: status 200 or 201 yields (body, nil) when the body is read
\* in full, and (nil, the read failure) when reading it fails; 204, 401 and
\* 500 with a decodable body are as stated.
C1_Classification ==
    Received =>
        /\ (TheResponse.status \in {200, 201} /\ TheResponse.readOK)
              => Returns(Ptr(TheResponse.body), NoError)
        /\ (TheResponse.status \in {200, 201} /\ ~TheResponse.readOK)
              => Returns(Nil, Error("read body", Nil, Nil))
        /\ TheResponse.status = 204 => Returns(Nil, ErrNoContent)
        /\ TheResponse.status = 401 => Returns(Nil, ErrInavlidCredentials)
        /\ (TheResponse.status = 500 /\ TheResponse.readOK /\ Decodes(TheResponse.body))
              => Returns(Nil, DecodedError(TheResponse.body))

\* a 500 answer with a structured error has been classified
C1_Witness ==
    /\ Received /\ TheResponse.status = 500 /\ Decodes(TheResponse.body)
    /\ Deref(last.res.err.xm).Code = 500

OtherStatus == TheResponse.status \notin {200, 201, 204, 401}

\* C2, as stated: for a status outside {200, 201, 204, 401} Request returns
\* no bytes and the decoded XMattersError when the body decodes, otherwise
\* an error that wraps the decode failure and holds the raw body.
C2_AsStated ==
    (Received /\ OtherStatus) =>
        /\ last.res.bytes = Nil
        /\ last.res.err # NoError
        /\ IF TheResponse.readOK /\ Decodes(TheResponse.body)
              THEN last.res.err = DecodedError(TheResponse.body)
           ELSE /\ last.res.err.kind = "unmarshal error body"
                /\ last.res.err.raw = Ptr(TheResponse.body)

\* C2, amended: as stated when the body is read in full; when reading the
\* body fails, Request returns no bytes and the read failure.
C2_ErrorStatus ==
    (Received /\ OtherStatus) =>
        /\ last.res.bytes = Nil
        /\ last.res.err # NoError
        /\ IF ~TheResponse.readOK
              THEN last.res.err = Error("read body", Nil, Nil)
           ELSE IF Decodes(TheResponse.body)
              THEN last.res.err = DecodedError(TheResponse.body)
           ELSE /\ last.res.err.kind = "unmarshal error body"
                /\ last.res.err.raw = Ptr(TheResponse.body)

\* a 404 answer whose body is no JSON text has been classified
C2_Witness ==
    /\ Received /\ TheResponse.status = 404 /\ TheResponse.body = GarbageBody
    /\ last.res.err.raw = Ptr(GarbageBody)

\* the arguments of the last Request can be encoded and make a request
CanBuild ==
    /\ last.args[4] # "unencodable"
    /\ last.args[1] \in {"GET", "POST", "DELETE"}
    /\ \A i \in 1..Len(last.args[2]) : last.args[2][i] \notin (0..31) \cup {127}

\* C3: a Request calls the HTTP client exactly once when body encoding and
\* request construction succeed, and not at all when one of them fails (it
\* then returns that failure); it never calls it twice.
C3_OneCall ==
    last.op = "Request" =>
        /\ CanBuild => last.res.doCalls = 1
        /\ ~CanBuild =>
              /\ last.res.doCalls = 0
              /\ last.res.bytes = Nil
              /\ last.res.err.kind =
                    (IF last.args[4] = "unencodable" THEN "marshal body"
                     ELSE "request creation")

\* a Request that got a 401 answer has made its one call
C3_Witness ==
    Received /\ TheResponse.status = 401 /\ last.res.doCalls = 1

\* C4: every HTTP call of Request is preceded by the acquisition of a
\* permit from the client's rate limiter.
C4_PermitBeforeCall ==
    last.op = "Request" => last.res.permits >= last.res.doCalls

\* C5: the HTTP calls of a client built with WithRateLimit(R) are at least
\* 1/R seconds apart.
C5_BoundedRate ==
    (last.op = "Request" /\ last.gap # -1 /\ TheClient.rateLimiter # Nil) =>
        last.gap * Deref(TheClient.rateLimiter).limit >= TicksPerSecond

\* C6: a constructed client holds a rate limiter.
C6_HasLimiter ==
    \A c \in ClientIds : clients[c] # Nil => Deref(clients[c]).rateLimiter # Nil

\* the last Request was made by a client with the HTTP client of newClient
\* and a retry policy set through WithRetryPolicy
WithPolicy ==
    /\ last.op = "Request" /\ last.res.doCalls = 1
    /\ TheClient.httpClient = StandardClient
    /\ TheClient.retryPolicy.MaxRetries >= 1

Succeeds(o) == ~o.err /\ o.status \in {200, 201} /\ o.readOK

\* C7: when the transport fails MaxRetries - 1 times and then succeeds,
\* Request returns the body of the successful attempt.
C7_RetryThenSuccess ==
    ( /\ WithPolicy
      /\ last.script.fails = TheClient.retryPolicy.MaxRetries - 1
      /\ Succeeds(last.script.final) )
    => Returns(Ptr(last.script.final.body), NoError)

\* C8: the attempts made for one Request never exceed MaxRetries + 1, and
\* a transport that fails more than MaxRetries times yields an error.
C8_RetryCeiling ==
    WithPolicy =>
        /\ last.res.attempts <= TheClient.retryPolicy.MaxRetries + 1
        /\ last.script.fails > TheClient.retryPolicy.MaxRetries => last.res.err # NoError

ExpectedAuthorization(xm) ==
    IF xm.AuthType = Ptr("Basic")
        THEN HeaderValue("Basic", <<100, 84, 112, 119, 100, 119, 61, 61>>)
    ELSE HeaderValue("Bearer", Deref(xm.Token))

\* C10: every request carries exactly one Authorization value, the one of
\* the client's credentials, whatever the construction options.
C10_OneAuthorization ==
    Built =>
        /\ "Authorization" \in DOMAIN TheRequest.header
        /\ TheRequest.header["Authorization"] = <<ExpectedAuthorization(TheClient)>>

----------------------------------------------------------------------------
(* The pagination walkers *)

\* the client of the last walk and the header map it holds
WalkClient == Deref(clients[walk.client])
WalkHeaders == heap[Deref(WalkClient.headers)]

\* the last call was a call of one of the five walkers and came back
WalkerCame == walk.op \in Walkers /\ walk.res.outcome # "none"

\* strings.TrimPrefix(s, prefix): s without the leading prefix, if it has it
TrimPrefix(s, prefix) ==
    IF HasPrefix(s, prefix) THEN SubSeq(s, Len(prefix) + 1, Len(s)) ELSE s

\* the server answers a GET of uri with a page envelope
IsPage(srv, uri) ==
    LET a == Answer(srv, "GET", uri) IN
    /\ a.fails = 0 /\ ~a.final.err /\ a.final.status = StatusOK /\ a.final.readOK
    /\ a.final.body.page # Nil

EnvelopeAt(srv, uri) == Deref(Answer(srv, "GET", uri).final.body.page)

HasNext(e) == e.members = "links" /\ e.next # Nil

\* the chain of pages that starts at uri: each next link names, under the
\* API root, the uri of the next page; ok if the chain is finite and each
\* of its uris has a page
RECURSIVE ChainFrom(_, _, _)
ChainFrom(srv, uri, seen) ==
    IF ~IsPage(srv, uri) \/ uri \in seen THEN [ok |-> FALSE, uris |-> <<>>]
    ELSE LET e == EnvelopeAt(srv, uri) IN
         IF ~HasNext(e) THEN [ok |-> TRUE, uris |-> <<uri>>]
         ELSE LET rest == ChainFrom(srv, TrimPrefix(Deref(e.next), defaultBasePathBytes),
                                    seen \cup {uri})
              IN  [ok |-> rest.ok, uris |-> <<uri>> \o rest.uris]

\* the elements of the pages at uris, page after page
RECURSIVE ElementsAt(_, _)
ElementsAt(srv, uris) ==
    IF uris = <<>> THEN <<>>
    ELSE EnvelopeAt(srv, Head(uris)).data \o ElementsAt(srv, Tail(uris))

WalkChain == ChainFrom(pages, walk.args[1], {})

\* C12: for every finite chain of pages linked by next links, a walker
\* returns the concatenation of the elements of the pages, in page order and
\* in-page order, without error
C12_Concatenation ==
    (WalkerCame /\ WalkChain.ok)
        => /\ walk.res.outcome = "returned"
           /\ walk.res.err = NoError
           /\ walk.res.value = ElementsAt(pages, WalkChain.uris)

\* C13: for a chain of k pages a walk sends exactly k GET requests, one for
\* each page in link order, and then returns; one request for a single page
C13_OneRequestPerPage ==
    (WalkerCame /\ WalkChain.ok)
        => /\ walk.res.outcome = "returned"
           /\ walk.res.requests =
                 [i \in 1..Len(WalkChain.uris) |-> <<"GET", WalkChain.uris[i], <<>>>>]

\* C14: the uri of the request that follows a page with a next link is that
\* link without its leading "/api/xm/1", every other byte unchanged
C14_LeadingPrefixOnly ==
    WalkerCame
        => \A i \in 1..(Len(walk.res.requests) - 1) :
              LET uri == walk.res.requests[i][2] IN
              (IsPage(pages, uri) /\ HasNext(EnvelopeAt(pages, uri)))
                  => walk.res.requests[i + 1][2]
                        = TrimPrefix(Deref(EnvelopeAt(pages, uri).next),
                                     defaultBasePathBytes)

\* the walk of the walker fn that client WalkClient starts at uri
WalkFrom(fn, uri) == PaginationSet(fn, WalkClient, WalkHeaders, pages, uri, {})

\* C15: a walk started from a next link without its leading "/api/xm/1"
\* sends the requests, and returns the elements and the error, of the
\* continuation of a walk that found that link on one of its pages
C15_StrippedStart ==
    (WalkerCame /\ walk.res.outcome = "returned")
        => \A i \in 1..Len(PageURIs) :
              LET uri == PageURIs[i]
                  whole == WalkFrom(walk.op, uri)
              IN  ( /\ IsPage(pages, uri) /\ HasNext(EnvelopeAt(pages, uri))
                    /\ walk.args[1] = TrimPrefix(Deref(EnvelopeAt(pages, uri).next),
                                                 defaultBasePathBytes)
                    /\ whole.outcome = "returned" )
                  => /\ Tail(whole.requests) = walk.res.requests
                     /\ whole.err = walk.res.err
                     /\ whole.err = NoError
                           => whole.value = EnvelopeAt(pages, uri).data \o walk.res.value

\* what Request returns for the i-th request of the last walk
Fetched(i) ==
    Request(WalkClient, WalkHeaders, "GET", walk.res.requests[i][2], ContentJSON,
            "nil", Answer(pages, "GET", walk.res.requests[i][2]))

\* C16: when the request for a page fails, the walk returns that error and
\* an empty collection, and that request is its last
C16_ErrorEmpties ==
    WalkerCame
        => \A i \in 1..Len(walk.res.requests) :
              Fetched(i).err # NoError
                  => /\ i = Len(walk.res.requests)
                     /\ walk.res.outcome = "returned"
                     /\ walk.res.err = Fetched(i).err
                     /\ walk.res.value = <<>>

\* a walk whose first page had elements and whose second request failed
C16_Witness ==
    /\ WalkerCame
    /\ Len(walk.res.requests) = 2
    /\ Fetched(1).err = NoError
    /\ EnvelopeAt(pages, walk.res.requests[1][2]).data # <<>>
    /\ Fetched(2).err # NoError
    /\ walk.res.err = Fetched(2).err
    /\ walk.res.value = <<>>

\* the server answers a GET of uri with 200 and a text that json.Unmarshal
\* refuses
Undecodable(srv, uri) ==
    LET a == Answer(srv, "GET", uri) IN
    /\ a.fails = 0 /\ ~a.final.err /\ a.final.status = StatusOK /\ a.final.readOK
    /\ a.final.body.shape \notin {"object", "null"}

\* C17: when the body of a page is no envelope, the walk returns the
\* unmarshal error and an empty collection, and that request is its last
C17_DecodeError ==
    WalkerCame
        => \A i \in 1..Len(walk.res.requests) :
              Undecodable(pages, walk.res.requests[i][2])
                  => /\ i = Len(walk.res.requests)
                     /\ walk.res.outcome = "returned"
                     /\ walk.res.err = newUnmarshalError(walk.op)
                     /\ walk.res.value = <<>>

\* a walk whose first page had elements and whose second page was no envelope
C17_Witness ==
    /\ WalkerCame
    /\ Len(walk.res.requests) = 2
    /\ IsPage(pages, walk.res.requests[1][2])
    /\ EnvelopeAt(pages, walk.res.requests[1][2]).data # <<>>
    /\ Undecodable(pages, walk.res.requests[2][2])
    /\ walk.res.err = newUnmarshalError(walk.op)
    /\ walk.res.value = <<>>

\* C18: a walk whose last page is an envelope without next link (next is
\* null, or the links object or all the pagination members are missing)
\* returns without error; from a single such page it returns its elements
C18_NoNextTerminates ==
    (WalkerCame /\ walk.res.requests # <<>>)
        => LET uri == walk.res.requests[Len(walk.res.requests)][2] IN
           (IsPage(pages, uri) /\ ~HasNext(EnvelopeAt(pages, uri)))
               => /\ walk.res.outcome = "returned"
                  /\ walk.res.err = NoError
                  /\ Len(walk.res.requests) = 1
                        => walk.res.value = EnvelopeAt(pages, uri).data

\* C19: the roster walker requests the pages the generic walker requests,
\* and its Members are the projection (member id, recipient type) of the
\* memberships of all these pages, in order
C19_SameTraversal ==
    walk.op = "GetGroupRosterPaginationSet"
        => LET generic == WalkFrom("GetGroupPaginationSet", walk.args[1]) IN
           (generic.outcome = "returned" /\ generic.err = NoError)
               => /\ walk.res.outcome = "returned"
                  /\ walk.res.err = NoError
                  /\ walk.res.requests = generic.requests
                  /\ walk.res.value.Members = memberListOf(generic.value)

----------------------------------------------------------------------------
(* The roster operations *)

\* the ids of the members of a list of GroupMember
IdsOf(list) == {Deref(list[i].ID) : i \in 1..Len(list)}

\* the number of requests of the last operation equal to q
Count(q) == Cardinality({i \in 1..Len(walk.res.requests) : walk.res.requests[i] = q})

Deletes(id) == Count(<<"DELETE", memberURI(GroupId, id), <<>>>>)
Creates(id) == Count(<<"POST", membersURI(GroupId), id>>)

\* the ids of the roster the server had when the operation began
CurrentIds == {walk.before[i] : i \in 1..Len(walk.before)}

\* C20: a PushGroupRoster whose calls all succeed sends one delete for each
\* id of the current roster that is not desired, one create for each desired
\* id that is not in the current roster, and no other delete or create,
\* also when an id is more than once in a list
C20_SetDifference ==
    (walk.op = "PushGroupRoster" /\ walk.res.outcome = "returned"
        /\ walk.res.err = NoError)
        => \A id \in MemberIds :
              LET desired == IdsOf(walk.args[2]) IN
              /\ Deletes(id) = IF id \in CurrentIds \ desired THEN 1 ELSE 0
              /\ Creates(id) = IF id \in desired \ CurrentIds THEN 1 ELSE 0

----------------------------------------------------------------------------
(* The configuration of a client *)

\* the configuration of the built client c: base URL, user agent, retry
\* policy, rate limiter, and the names and values of its header set
Config(c) ==
    LET xm == Deref(clients[c]) IN
    [BaseURL |-> xm.BaseURL, UserAgent |-> xm.UserAgent,
     retryPolicy |-> xm.retryPolicy, rateLimiter |-> xm.rateLimiter,
     headers |-> heap[Deref(xm.headers)]]

\* a step in which Request, a walker or a roster operation is called
OperationStep ==
    \/ last.op = "none" /\ last'.op = "Request"
    \/ walk.op = "none" /\ walk'.op # "none"

\* C11: a call of Request, of a walker, of PushGroupRoster or of
\* DeleteGroupRoster leaves the configuration of every built client as it
\* was: base URL, user agent, header set, retry policy and rate limiter
C11_ConfigUnchanged ==
    [][OperationStep
          => \A c \in ClientIds :
                clients[c] # Nil => clients'[c] # Nil /\ Config(c)' = Config(c)]_vars

\* a PushGroupRoster that sent deletes and creates, by a client that was
\* built with a header map of the caller, a rate limit and a retry policy
C11_Witness ==
    /\ walk.op = "PushGroupRoster"
    /\ \E id \in MemberIds : Deletes(id) > 0
    /\ \E id \in MemberIds : Creates(id) > 0
    /\ WalkClient.headers = Ptr(CallerRef(1))
    /\ "X-Trace" \in DOMAIN WalkHeaders
    /\ WalkClient.rateLimiter # Nil

----------------------------------------------------------------------------
(* The reconciliation of a roster *)

\* the requests of the last operation, in the order in which it sent them
Requests == walk.res.requests

\* the number of pages in which the server lists a roster
PagesOf(members) ==
    IF members = <<>> THEN 1 ELSE (Len(members) + PageSize - 1) \div PageSize

\* the requests of a fetch of the roster members: one GET for each page
FetchOf(members) ==
    [k \in 1..PagesOf(members) |->
        <<"GET", rosterPageURI(GroupId, (k - 1) * PageSize), <<>>>>]

IsDelete(q) == q[1] = "DELETE"
IsCreate(q) == q[1] = "POST"

\* C21: in a PushGroupRoster no create is sent before a delete, and every
\* delete and create is sent after the requests of the initial roster fetch
C21_RemovalsFirst ==
    walk.op = "PushGroupRoster"
        => /\ \A i, j \in 1..Len(Requests) :
                 (IsCreate(Requests[i]) /\ IsDelete(Requests[j])) => j < i
           /\ \A i \in 1..Len(Requests) :
                 (IsDelete(Requests[i]) \/ IsCreate(Requests[i]))
                     => /\ i > PagesOf(walk.before)
                        /\ SubSeq(Requests, 1, PagesOf(walk.before)) = FetchOf(walk.before)

\* a PushGroupRoster that fetched a roster of two pages, then deleted, then
\* created
C21_Witness ==
    /\ walk.op = "PushGroupRoster"
    /\ PagesOf(walk.before) = 2
    /\ \E i, j \in 1..Len(Requests) :
          i < j /\ IsDelete(Requests[i]) /\ IsCreate(Requests[j])

\* the last operation was a PushGroupRoster that returned without error
PushSucceeded ==
    walk.op = "PushGroupRoster" /\ walk.res.outcome = "returned" /\ walk.res.err = NoError

\* the ids of the list given to the last PushGroupRoster
DesiredIds == IdsOf(walk.args[2])

\* C22: the server applies every delete and create and nothing else changes
\* it; a PushGroupRoster that returns without error returns a roster whose
\* set of member ids is the set of the desired ids
C22_ReachesDesired ==
    PushSucceeded => IdsOf(walk.res.value.Members) = DesiredIds

\* current {a, b} and desired {b, c}: delete(a), create(c), roster {b, c}
C22_Witness ==
    /\ PushSucceeded
    /\ walk.before = << <<97>>, <<98>> >>
    /\ DesiredIds = {<<98>>, <<99>>}
    /\ Deletes(<<97>>) = 1 /\ Creates(<<99>>) = 1
    /\ IdsOf(walk.res.value.Members) = {<<98>>, <<99>>}

\* what a fetch of the roster by the client of the last operation returns
\* from the server as it is now
FetchNow == GetGroupRoster(WalkClient, WalkHeaders, pages, GroupId)

\* C23: the roster a successful PushGroupRoster returns is the roster of a
\* fetch sent after its last delete and create: the last requests are the
\* GETs of the pages of the roster the server then has, and the roster
\* returned is what the server lists, whether or not it is the desired list
C23_ReturnsRefetched ==
    PushSucceeded
        => LET n == Len(Requests)
               k == PagesOf(roster)
           IN  /\ n >= k
               /\ SubSeq(Requests, n - k + 1, n) = FetchOf(roster)
               /\ \A i \in 1..n :
                     (IsDelete(Requests[i]) \/ IsCreate(Requests[i])) => i <= n - k
               /\ walk.res.value = FetchNow.value

\* a successful PushGroupRoster that changed the roster and returned a
\* roster with more members than the desired list
C23_Witness ==
    /\ PushSucceeded
    /\ \E i \in 1..Len(Requests) : IsCreate(Requests[i])
    /\ Len(walk.res.value.Members) > Len(walk.args[2])
    /\ walk.res.value = FetchNow.value

\* the fault of the last roster operation
TheFault == walk.args[3]

\* the requests the last PushGroupRoster sends when none of them fails
Unfaulted ==
    PushGroupRoster(WalkClient, WalkHeaders, walk.before, NoFault, GroupId,
                    walk.args[2]).res.requests

\* the error Request returns for the request q when the network answers it
\* with final
ErrorOf(q, final) ==
    Request(WalkClient, WalkHeaders, q[1], q[2], ContentJSON,
            IF IsCreate(q) THEN "value" ELSE "nil", Script(0, "error", final)).err

\* the roster of a server that had members and applied the deletes and
\* creates among reqs, in order
RECURSIVE Applied(_, _)
Applied(members, reqs) ==
    IF reqs = <<>> THEN members
    ELSE LET q == Head(reqs) IN
         Applied(IF IsDelete(q)
                    THEN removeFirst(members,
                                     CHOOSE id \in MemberIds : memberURI(GroupId, id) = q[2])
                 ELSE IF IsCreate(q) THEN Append(members, q[3])
                 ELSE members,
                 Tail(reqs))

\* C24: when a request of a PushGroupRoster fails (a GET of the initial
\* fetch, a DELETE or a POST), the call returns the error of that request and
\* an empty roster, that request is its last, and the server keeps what the
\* requests before it did: nothing is undone, nothing more is sent
C24_FirstFailureStops ==
    (walk.op = "PushGroupRoster" /\ TheFault.at \in 1..Len(Unfaulted))
        => /\ Requests = SubSeq(Unfaulted, 1, TheFault.at)
           /\ walk.res.outcome = "returned"
           /\ walk.res.err # NoError
           /\ walk.res.err = ErrorOf(Requests[TheFault.at], TheFault.final)
           /\ walk.res.value = NoRoster
           /\ roster = Applied(walk.before, SubSeq(Requests, 1, TheFault.at - 1))

\* a PushGroupRoster whose second delete failed: the first delete stays
\* applied, the create that was due is not sent
C24_Witness ==
    /\ walk.op = "PushGroupRoster"
    /\ TheFault.at = Len(Requests)
    /\ Len(Requests) >= 3
    /\ IsDelete(Requests[Len(Requests)]) /\ IsDelete(Requests[Len(Requests) - 1])
    /\ DesiredIds \ CurrentIds # {}
    /\ \A i \in 1..Len(Requests) : ~IsCreate(Requests[i])
    /\ Len(roster) = Len(walk.before) - 1
    /\ walk.res.err # NoError /\ walk.res.value = NoRoster

----------------------------------------------------------------------------
(* The deletes *)

\* the functions that send one DELETE request
DeleteFunctions == {call[1] : call \in DeleteCalls} \cup {"DeleteGroupMembership"}

\* the requests the last DeleteGroupRoster sends when none of them fails
UnfaultedDeletes ==
    DeleteGroupRoster(WalkClient, WalkHeaders, walk.before, NoFault, GroupId).res.requests

\* the request number TheFault.at of the last operation was a DELETE and the
\* server answered it without content
DeleteGotNoContent ==
    /\ TheFault.final = NoContent
    /\ TheFault.at \in 1..Len(Requests)
    /\ IsDelete(Requests[TheFault.at])

\* C25: a delete function whose DELETE is answered 204 reports no error, and
\* PushGroupRoster and DeleteGroupRoster go on with the calls that remain
\* after a DELETE answered 204
C25_NoContentIsSuccess ==
    /\ (walk.op \in DeleteFunctions /\ DeleteGotNoContent) => walk.res.err = NoError
    /\ (walk.op = "PushGroupRoster" /\ DeleteGotNoContent)
          => Len(Requests) = Len(Unfaulted)
    /\ (walk.op = "DeleteGroupRoster" /\ DeleteGotNoContent)
          => /\ Len(Requests) = Len(UnfaultedDeletes)
             /\ walk.res.err = NoError

----------------------------------------------------------------------------
(* The arguments of the constructors *)

\* the last call was a call of a constructor
Constructed == last.op \in {"NewWithBasicAuth", "NewWithToken"}

\* the last call was a call of a constructor without one of the arguments
\* it requires: the hostname, and the username and password or the token
MissesArgument == Constructed /\ \E i \in 1..Len(last.args) : last.args[i] = Nil

\* C26: a constructor called with a nil hostname, username, password or
\* token returns an error and no client, ErrNoHostname when the hostname is
\* missing, and does not crash
C26_RequiredArguments ==
    MissesArgument
        => /\ last.outcome = "returned"
           /\ last.res.err # NoError
           /\ clients[last.client] = Nil
           /\ last.args[1] = Nil => last.res.err = ErrNoHostname

----------------------------------------------------------------------------
(* The removal of a roster *)

\* one DELETE for each member of members, in order
DeletesOf(members) ==
    [i \in 1..Len(members) |-> <<"DELETE", memberURI(GroupId, members[i]), <<>>>>]

\* the request number n of the last operation is the one the fault is at,
\* and Request returns an error for it
FailsAt(n) ==
    /\ n = TheFault.at
    /\ n \in 1..Len(Requests)
    /\ ErrorOf(Requests[n], TheFault.final) # NoError

\* C27: DeleteGroupRoster fetches the roster, then sends one DELETE for each
\* member fetched, in roster order, up to the first that fails; it returns
\* the error of the request that failed, and nil when none failed, and then
\* the server, which applies the deletes, has no member left
C27_DeletesAll ==
    walk.op = "DeleteGroupRoster"
        => LET k == PagesOf(walk.before)
               all == FetchOf(walk.before) \o DeletesOf(walk.before)
           IN  /\ walk.res.outcome = "returned"
               /\ \E n \in 1..Len(all) :
                     /\ Requests = SubSeq(all, 1, n)
                     /\ \A i \in 1..(n - 1) : ~FailsAt(i)
                     /\ IF FailsAt(n)
                           THEN walk.res.err = ErrorOf(Requests[n], TheFault.final)
                        ELSE n = Len(all) /\ walk.res.err = NoError
               /\ roster = Applied(walk.before,
                                    IF FailsAt(Len(Requests))
                                       THEN SubSeq(Requests, 1, Len(Requests) - 1)
                                    ELSE Requests)
               /\ walk.res.err = NoError => roster = <<>>

\* a DeleteGroupRoster that fetched a roster of two pages and deleted every
\* member of it
C27_Witness ==
    /\ walk.op = "DeleteGroupRoster"
    /\ PagesOf(walk.before) = 2
    /\ Requests = FetchOf(walk.before) \o DeletesOf(walk.before)
    /\ walk.res.err = NoError
    /\ roster = <<>>

----------------------------------------------------------------------------
(* The header set of a client *)

\* the headers the built client c sends with a request of JSON content
SentHeaders(c) ==
    LET xm == Deref(clients[c]) IN
    requestHeadersOf(xm, heap[Deref(xm.headers)], ContentJSON)

\* C28: a step that is no call of an operation of the client (another
\* client is built, also with the same header map, or the caller changes the
\* map it gave to WithHeaders) leaves the headers a built client sends as
\* they were
C28_OwnHeaders ==
    [][\A c \in ClientIds :
          (clients[c] # Nil /\ ~OperationStep)
              => clients'[c] # Nil /\ SentHeaders(c)' = SentHeaders(c)]_vars

----------------------------------------------------------------------------
(* Reconciliation is minimal *)

\* reqs holds no DELETE and no POST
NoMutation(reqs) == \A i \in 1..Len(reqs) : ~IsDelete(reqs[i]) /\ ~IsCreate(reqs[i])

\* the last PushGroupRoster, called again with the same desired list on the
\* server as it is now
Again ==
    PushGroupRoster(WalkClient, WalkHeaders, roster, NoFault, GroupId, walk.args[2])

\* C29: a PushGroupRoster whose desired ids are the ids of the current
\* roster sends no DELETE and no POST, only the requests of the two roster
\* fetches; and a successful PushGroupRoster called again with the same list
\* sends no DELETE and no POST, leaves the roster of the server as it is and
\* returns the same roster
C29_Idempotent ==
    /\ (walk.op = "PushGroupRoster" /\ CurrentIds = DesiredIds)
          => /\ NoMutation(Requests)
             /\ walk.res.err = NoError
                   => Requests = FetchOf(walk.before) \o FetchOf(walk.before)
    /\ PushSucceeded
          => /\ NoMutation(Again.res.requests)
             /\ Again.res.requests = FetchOf(roster) \o FetchOf(roster)
             /\ Again.res.err = NoError
             /\ Again.res.value = walk.res.value
             /\ Again.members = roster

\* a successful PushGroupRoster of the two ids the roster had, in the other
\* order: two fetches, no delete, no create, and the same when called again
C29_Witness ==
    /\ PushSucceeded
    /\ Cardinality(CurrentIds) = 2
    /\ CurrentIds = DesiredIds
    /\ Deref(walk.args[2][1].ID) # walk.before[1]
    /\ Requests = FetchOf(walk.before) \o FetchOf(walk.before)
    /\ Again.res.requests = Requests
    /\ Again.res.value = walk.res.value

----------------------------------------------------------------------------
(* The end of a walk *)

\* the number of pages of the server of the walks
NumberOfPages == Cardinality(DOMAIN pages)

\* the last call was a call of a walker, of element lists or of the roster
AnyWalkerCame ==
    walk.op \in Walkers \cup {"GetGroupRosterPaginationSet"} /\ walk.res.outcome # "none"

\* every page the last walk asked for holds a links object, with a next
\* link or with null
Linked ==
    \A i \in 1..Len(Requests) :
        IsPage(pages, Requests[i][2])
            => EnvelopeAt(pages, Requests[i][2]).members = "links"

\* C30: whatever next links the pages of the server hold, also a link to
\* the page itself or to an earlier page, a walk returns a collection or an
\* error after at most as many requests as the server has pages
C30_WalkTerminates ==
    (AnyWalkerCame /\ Linked)
        => /\ walk.res.outcome = "returned"
           /\ Len(Requests) <= NumberOfPages

====
